---- MODULE Spec2Model ----
(***************************************************************************)
(* Model of plugins/inventory/kubernetes_nodes.py: get_nodes builds the    *)
(* kubectl command line from the node selectors, and                       *)
(* InventoryModule.add_nodes / add_node project every returned node into   *)
(* a host of the inventory.  add_node is followed statement by statement   *)
(* (pc); an exception raised by a statement ends the build (pc = "Failed").*)
(* The calls into the Constructable helpers and the inventory object are   *)
(* modelled at the call sites, by what ansible-core does there.            *)
(***************************************************************************)
EXTENDS Integers, Sequences, FiniteSets, TLC

VARIABLES
    selectors,   \* the node_selectors option: absent, or a dict in iteration order
    cmd,         \* get_nodes: the command line built so far
    config,      \* the option bag of one build (read-only)
    items,       \* the "items" the node source answers with
    nodes,       \* add_nodes: the list being iterated (set by get_nodes)
    idx,         \* add_nodes: index of the node in hand (0 before the first)
    pc,          \* position in parse / add_nodes / add_node
    hostname,    \* add_node local
    addr,        \* add_node local
    host_vars,   \* add_node local: the dict object bound at line 93
    aliased,     \* host_vars is still the dict object the Host holds
    strict,      \* add_node local (line 94)
    hosts,       \* inventory: names of the hosts added
    hostvars,    \* inventory: hosts[name].vars
    groups,      \* inventory: names of the groups added
    members,     \* inventory: <<group, host>> memberships
    calls,       \* history: calls made on the inventory, <<node index, op, host, key>>
    failure      \* the exception that ended the build, "none" otherwise

vars == <<selectors, cmd, config, items, nodes, idx, pc, hostname, addr,
          host_vars, aliased, strict, hosts, hostvars, groups, members,
          calls, failure>>

-----------------------------------------------------------------------------
(* Bounds *)

MaxNodes == 2
MaxSelectors == 2

-----------------------------------------------------------------------------
(* Values: a str, a map (a set of <<key, value>> string pairs), or nothing. *)

Str(s) == [kind |-> "str", s |-> s, m |-> {}]
Map(m) == [kind |-> "map", s |-> "", m |-> m]
Undef == [kind |-> "undef", s |-> "", m |-> {}]
Error == [kind |-> "error", s |-> "", m |-> {}]

\* Python's None as a selector value
None == "<None>"

RECURSIVE SeqsOfLen(_, _)
SeqsOfLen(S, n) ==
    IF n = 0 THEN {<<>>}
    ELSE {Append(s, x) : s \in SeqsOfLen(S, n - 1), x \in S}

SeqsUpTo(S, n) == UNION {SeqsOfLen(S, k) : k \in 0..n}

-----------------------------------------------------------------------------
(* get_nodes *)

SelectorKeys == {"role", "zone", "arch"}
SelectorValues == {None, "worker", ""}

\* A dict has each key once; its items come in insertion order.
SelectorMaps ==
    {s \in SeqsUpTo(SelectorKeys \X SelectorValues, MaxSelectors) :
        \A i, j \in 1..Len(s) : i # j => s[i][1] # s[j][1]}

\* the option as get_option returns it: None (no dict), or a dict
NoSelectors == [present |-> FALSE, entries |-> <<>>]
SelectorDict(s) == [present |-> TRUE, entries |-> s]

SelectorOptions == {NoSelectors} \cup {SelectorDict(s) : s \in SelectorMaps}

BaseCmd == <<"kubectl", "get", "nodes", "-o", "json">>

ConstraintAlwaysFormatted(k, v) == k \o "=" \o v

\* lines 40-43: the argument of one -l
Constraint(k, v) == IF v = None THEN k ELSE k \o "=" \o v

RECURSIVE ExtendCmd(_, _)
\* lines 39-43: the loop over selectors.items()
ExtendCmd(c, sel) ==
    IF sel = <<>> THEN c
    ELSE ExtendCmd(c \o <<"-l", Constraint(sel[1][1], sel[1][2])>>, Tail(sel))

\* lines 36-43
BuildCmd(sel) ==
    IF sel.present /\ sel.entries # <<>> THEN ExtendCmd(BaseCmd, sel.entries)
    ELSE BaseCmd

-----------------------------------------------------------------------------
(* Inputs: the raw node descriptions and the options *)

HostNames == {"n1", "n2"}

VarNames == {"ansible_host", "node_labels", "node_annotations", "node_info",
             "role", "a", "b"}

Addresses(l) == [present |-> TRUE, list |-> l]
NoAddresses == [present |-> FALSE, list |-> <<>>]

Annotations == Map({<<"note", "x">>})
NodeInfo == Map({<<"arch", "amd64">>})

\* A field that is Undef is a key the node's JSON does not have.
Node(n, a, l, an, ni) ==
    [name |-> n, addresses |-> a, labels |-> l, annotations |-> an, nodeInfo |-> ni]

CompleteNodes ==
    { Node(Str("n1"),
           Addresses(<< <<"InternalIP", "10.0.0.1">>, <<"Hostname", "h1">>,
                        <<"InternalIP", "10.0.0.2">> >>),
           Map({<<"role", "edge">>}), Annotations, NodeInfo),
      Node(Str("n2"),
           Addresses(<< <<"Hostname", "h2">>, <<"InternalIP", "10.0.0.3">> >>),
           Map({<<"role", "core">>, <<"zone", "z1">>}), Annotations, NodeInfo),
      Node(Str("n1"),
           Addresses(<< <<"Hostname", "h3">> >>),
           Map({}), Annotations, NodeInfo) }

DefaultAddresses == Addresses(<< <<"InternalIP", "10.0.0.4">>, <<"Hostname", "h4">> >>)
DefaultLabels == Map({<<"role", "edge">>})

PartialNodes ==
    { Node(Undef, DefaultAddresses, DefaultLabels, Annotations, NodeInfo),
      Node(Str("n2"), NoAddresses, DefaultLabels, Annotations, NodeInfo),
      Node(Str("n2"), DefaultAddresses, Undef, Annotations, NodeInfo),
      Node(Str("n2"), DefaultAddresses, DefaultLabels, Undef, NodeInfo),
      Node(Str("n2"), DefaultAddresses, DefaultLabels, Annotations, Undef) }

RawNodes == CompleteNodes \cup PartialNodes

NodeLists == SeqsUpTo(RawNodes, MaxNodes)

\* Jinja2 expressions: a literal, a variable, an attribute of a variable
Lit(s) == [op |-> "lit", a |-> s, b |-> ""]
Ref(v) == [op |-> "ref", a |-> v, b |-> ""]
Attr(v, k) == [op |-> "attr", a |-> v, b |-> k]

AddressKinds == {"InternalIP", "Hostname"}

StaticVarsChoices ==
    { <<>>,
      << <<"role", Str("worker")>>, <<"a", Str("sa")>>,
         <<"ansible_host", Str("static.example")>> >> }

ComposeChoices ==
    { <<>>,
      << <<"role", Attr("node_labels", "role")>> >>,
      << <<"a", Lit("ca")>>, <<"b", Ref("a")>> >>,
      << <<"b", Ref("a")>>, <<"a", Lit("ca")>> >>,
      << <<"node_labels", Ref("node_info")>>, <<"b", Ref("node_labels")>> >>,
      << <<"ansible_host", Lit("composed.example")>> >> }

Keyed(e, p) == [key |-> e, prefix |-> p, separator |-> "_"]

\* the groups and keyed_groups options, configured together
GroupingChoices ==
    { [groups |-> <<>>, keyed_groups |-> <<>>],
      [groups |-> << <<"edge", Attr("node_labels", "role")>>,
                     <<"labelled", Ref("node_labels")>> >>,
       keyed_groups |-> << Keyed(Attr("node_labels", "zone"), "zone"),
                           Keyed(Ref("node_info"), "info"),
                           Keyed(Attr("node_labels", "role"), "role") >>] }

Configs ==
    { [address_from |-> k, vars |-> v, compose |-> c, groups |-> g.groups,
       keyed_groups |-> g.keyed_groups, strict |-> s] :
        k \in AddressKinds, v \in StaticVarsChoices, c \in ComposeChoices,
        g \in GroupingChoices, s \in BOOLEAN }

DefaultConfig ==
    [address_from |-> "InternalIP", vars |-> <<>>, compose |-> <<>>,
     groups |-> <<>>, keyed_groups |-> <<>>, strict |-> FALSE]

-----------------------------------------------------------------------------
(* The helpers add_node computes with *)

NotFound == "<StopIteration>"

RECURSIVE LastAddress(_, _)
LastAddress(list, kind) ==
    IF list = <<>> THEN NotFound
    ELSE IF list[Len(list)][1] = kind THEN list[Len(list)][2]
    ELSE LastAddress(SubSeq(list, 1, Len(list) - 1), kind)

RECURSIVE FirstOrFallback(_, _)
FirstOrFallback(list, kind) ==
    IF list = <<>> THEN ""
    ELSE IF list[1][1] = kind THEN list[1][2]
    ELSE IF Len(list) = 1 THEN list[1][2]
    ELSE FirstOrFallback(Tail(list), kind)

RECURSIVE FirstAddress(_, _)
\* lines 77-81: next() over the generator; NotFound is its StopIteration
FirstAddress(list, kind) ==
    IF list = <<>> THEN NotFound
    ELSE IF list[1][1] = kind THEN list[1][2]
    ELSE FirstAddress(Tail(list), kind)

NoVars == [k \in VarNames |-> Undef]

SetIfAbsent(vs, key, value) ==
    IF vs[key] = Undef THEN [vs EXCEPT ![key] = value] ELSE vs

\* Host.set_variable: the dict after the call
SetVariable(vs, key, value) == [vs EXCEPT ![key] = value]

\* Host.set_variable: a mapping written over a mapping goes through
\* combine_vars, which binds Host.vars to a new dict object
Rebinds(vs, key, value) == vs[key].kind = "map" /\ value.kind = "map"

\* combine_vars(a, b): b's keys over a's
CombineVars(a, b) == [k \in VarNames |-> IF b[k] # Undef THEN b[k] ELSE a[k]]

\* Templar.template of an expression against the available variables
Eval(e, vs) ==
    CASE e.op = "lit" -> Str(e.a)
      [] e.op = "ref" -> IF vs[e.a] = Undef THEN Error ELSE vs[e.a]
      [] e.op = "attr" ->
            IF vs[e.a].kind = "map" /\ \E p \in vs[e.a].m : p[1] = e.b
            THEN Str((CHOOSE p \in vs[e.a].m : p[1] = e.b)[2])
            ELSE Error

\* Python truth of a templated value
Truthy(v) ==
    \/ v.kind = "str" /\ v.s # ""
    \/ v.kind = "map" /\ v.m # {}

RECURSIVE ApplyStaticKeepExisting(_, _)
ApplyStaticKeepExisting(vs, static) ==
    IF static = <<>> THEN vs
    ELSE ApplyStaticKeepExisting(SetIfAbsent(vs, static[1][1], static[1][2]),
                                 Tail(static))

RECURSIVE ApplyStatic(_, _)
\* lines 90-91
ApplyStatic(vs, static) ==
    IF static = <<>> THEN vs
    ELSE ApplyStatic(SetVariable(vs, static[1][1], static[1][2]), Tail(static))

RECURSIVE StaticCalls(_, _, _)
StaticCalls(i, h, static) ==
    IF static = <<>> THEN <<>>
    ELSE << <<i, "set_variable", h, static[1][1]>> >> \o StaticCalls(i, h, Tail(static))

ComposeStrictFromOption == config.strict

\* line 98: strict=True
ComposeStrict == TRUE

\* _set_composite_vars, from entry i on.  st.live is the dict the Host holds,
\* st.local the dict host_vars is bound to, st.aliased whether they are one
\* object, st.written the names set so far.
RECURSIVE ComposeFrom(_, _, _)
ComposeFrom(compose, i, st) ==
    IF i > Len(compose) THEN st
    ELSE LET name == compose[i][1]
             val == Eval(compose[i][2], st.local)
         IN  IF val = Error
             THEN IF ComposeStrict
                  THEN [st EXCEPT !.failed = TRUE]
                  ELSE ComposeFrom(compose, i + 1, st)
             ELSE LET rebinds == Rebinds(st.live, name, val)
                      live == SetVariable(st.live, name, val)
                      same == st.aliased /\ ~rebinds
                  IN  ComposeFrom(compose, i + 1,
                        [live |-> live,
                         local |-> IF same THEN live ELSE st.local,
                         aliased |-> same,
                         written |-> Append(st.written, name),
                         failed |-> FALSE])

\* _add_host_to_composed_groups, from entry i on
RECURSIVE ComposedGroupsFrom(_, _, _, _)
ComposedGroupsFrom(gs, i, vs, st) ==
    IF i > Len(gs) THEN st
    ELSE LET val == Eval(gs[i][2], vs)
         IN  IF val = Error
             THEN IF strict
                  THEN [st EXCEPT !.failed = TRUE]
                  ELSE ComposedGroupsFrom(gs, i + 1, vs, st)
             ELSE IF Truthy(val)
             THEN ComposedGroupsFrom(gs, i + 1, vs,
                    [st EXCEPT !.names = Append(@, gs[i][1])])
             ELSE ComposedGroupsFrom(gs, i + 1, vs, st)

\* _add_host_to_keyed_groups: the raw group names of one key
KeyNames(key, sep) ==
    IF key.kind = "str" THEN {key.s}
    ELSE {IF p[2] = "" THEN p[1] ELSE p[1] \o sep \o p[2] : p \in key.m}

RECURSIVE SetToSeq(_)
SetToSeq(S) ==
    IF S = {} THEN <<>>
    ELSE LET x == CHOOSE y \in S : TRUE IN <<x>> \o SetToSeq(S \ {x})

\* _add_host_to_keyed_groups, from entry i on
RECURSIVE KeyedGroupsFrom(_, _, _, _)
KeyedGroupsFrom(ks, i, vs, st) ==
    IF i > Len(ks) THEN st
    ELSE LET key == Eval(ks[i].key, vs)
         IN  IF key = Error
             THEN IF strict
                  THEN [st EXCEPT !.failed = TRUE]
                  ELSE KeyedGroupsFrom(ks, i + 1, vs, st)
             ELSE IF Truthy(key)
             THEN KeyedGroupsFrom(ks, i + 1, vs,
                    [st EXCEPT !.names = @ \o SetToSeq(
                        {ks[i].prefix \o ks[i].separator \o n :
                            n \in KeyNames(key, ks[i].separator)})])
             ELSE IF strict /\ key.kind = "str"
             THEN [st EXCEPT !.failed = TRUE]
             ELSE KeyedGroupsFrom(ks, i + 1, vs, st)

-----------------------------------------------------------------------------
(* The build: parse -> add_nodes -> add_node per node *)

inputs == <<selectors, config, items>>
locals == <<hostname, addr, host_vars, aliased, strict>>
inventory == <<hosts, hostvars, groups, members>>

AfterKeyedFirst(p) ==
    CASE p = "ReadName" -> "ResolveAddress"
      [] p = "ResolveAddress" -> "AddHost"
      [] p = "AddHost" -> "SetAnsibleHost"
      [] p = "SetAnsibleHost" -> "SetNodeLabels"
      [] p = "SetNodeLabels" -> "SetNodeAnnotations"
      [] p = "SetNodeAnnotations" -> "SetNodeInfo"
      [] p = "SetNodeInfo" -> "SetStaticVars"
      [] p = "SetStaticVars" -> "ComposeVars"
      [] p = "ComposeVars" -> "KeyedGroups"
      [] p = "KeyedGroups" -> "ComposedGroups"
      [] p = "ComposedGroups" -> "NextNode"

\* lines 76-110: the statement that follows statement p of add_node
After(p) ==
    CASE p = "ReadName" -> "ResolveAddress"
      [] p = "ResolveAddress" -> "AddHost"
      [] p = "AddHost" -> "SetAnsibleHost"
      [] p = "SetAnsibleHost" -> "SetNodeLabels"
      [] p = "SetNodeLabels" -> "SetNodeAnnotations"
      [] p = "SetNodeAnnotations" -> "SetNodeInfo"
      [] p = "SetNodeInfo" -> "SetStaticVars"
      [] p = "SetStaticVars" -> "ComposeVars"
      [] p = "ComposeVars" -> "ComposedGroups"
      [] p = "ComposedGroups" -> "KeyedGroups"
      [] p = "KeyedGroups" -> "NextNode"

Init ==
    /\ selectors = SelectorDict(<<>>)
    /\ cmd = <<>>
    /\ config \in Configs
    /\ items \in NodeLists
    /\ nodes = <<>>
    /\ idx = 0
    /\ pc = "Start"
    /\ hostname = ""
    /\ addr = ""
    /\ host_vars = NoVars
    /\ aliased = FALSE
    /\ strict = FALSE
    /\ hosts = {}
    /\ hostvars = [h \in HostNames |-> NoVars]
    /\ groups = {}
    /\ members = {}
    /\ calls = <<>>
    /\ failure = "none"

\* lines 45-46: kubectl answered
GetNodesOk ==
    /\ pc = "Start"
    /\ cmd' = BuildCmd(selectors)
    /\ nodes' = items
    /\ pc' = "NextNode"
    /\ UNCHANGED <<inputs, idx, locals, inventory, calls, failure>>

\* lines 47-48: kubectl exited non-zero
GetNodesFail ==
    /\ pc = "Start"
    /\ cmd' = BuildCmd(selectors)
    /\ pc' = "Failed"
    /\ failure' = "AnsibleRuntimeError: failed to get nodes"
    /\ UNCHANGED <<inputs, nodes, idx, locals, inventory, calls>>

\* lines 72-73: the for statement hands the next node to add_node
NextNode ==
    /\ pc = "NextNode"
    /\ idx < Len(nodes)
    /\ idx' = idx + 1
    /\ pc' = "ReadName"
    /\ hostname' = ""
    /\ addr' = ""
    /\ host_vars' = NoVars
    /\ aliased' = FALSE
    /\ UNCHANGED <<inputs, cmd, nodes, strict, inventory, calls, failure>>

\* lines 72-73: the list is exhausted
Finish ==
    /\ pc = "NextNode"
    /\ idx = Len(nodes)
    /\ pc' = "Done"
    /\ UNCHANGED <<inputs, cmd, nodes, idx, locals, inventory, calls, failure>>

\* line 76
ReadName ==
    /\ pc = "ReadName"
    /\ IF nodes[idx].name = Undef
       THEN /\ pc' = "Failed"
            /\ failure' = "KeyError: 'name'"
            /\ UNCHANGED hostname
       ELSE /\ hostname' = nodes[idx].name.s
            /\ pc' = After(pc)
            /\ UNCHANGED failure
    /\ UNCHANGED <<inputs, cmd, nodes, idx, addr, host_vars, aliased, strict,
                   inventory, calls>>

\* lines 77-81
ResolveAddress ==
    /\ pc = "ResolveAddress"
    /\ IF ~nodes[idx].addresses.present
       THEN /\ pc' = "Failed"
            /\ failure' = "KeyError: 'addresses'"
            /\ UNCHANGED addr
       ELSE IF FirstAddress(nodes[idx].addresses.list, config.address_from) = NotFound
       THEN /\ pc' = "Failed"
            /\ failure' = "StopIteration"
            /\ UNCHANGED addr
       ELSE /\ addr' = FirstAddress(nodes[idx].addresses.list, config.address_from)
            /\ pc' = After(pc)
            /\ UNCHANGED failure
    /\ UNCHANGED <<inputs, cmd, nodes, idx, hostname, host_vars, aliased, strict,
                   inventory, calls>>

\* line 82
AddHost ==
    /\ pc = "AddHost"
    /\ hosts' = hosts \cup {hostname}
    /\ calls' = Append(calls, <<idx, "add_host", hostname, "">>)
    /\ pc' = After(pc)
    /\ UNCHANGED <<inputs, cmd, nodes, idx, locals, hostvars, groups, members,
                   failure>>

\* one inventory.set_variable(hostname, key, value) of lines 83-88; the value
\* is read off the node first, and a missing key raises before the call
SetDerived(key, value, missing) ==
    /\ IF value = Undef
       THEN /\ pc' = "Failed"
            /\ failure' = missing
            /\ UNCHANGED <<hostvars, calls>>
       ELSE /\ hostvars' = [hostvars EXCEPT
                              ![hostname] = SetVariable(@, key, value)]
            /\ calls' = Append(calls, <<idx, "set_variable", hostname, key>>)
            /\ pc' = After(pc)
            /\ UNCHANGED failure
    /\ UNCHANGED <<inputs, cmd, nodes, idx, locals, hosts, groups, members>>

\* line 83
SetAnsibleHost ==
    /\ pc = "SetAnsibleHost"
    /\ SetDerived("ansible_host", Str(addr), "unreachable")

\* line 84
SetNodeLabels ==
    /\ pc = "SetNodeLabels"
    /\ SetDerived("node_labels", nodes[idx].labels, "KeyError: 'labels'")

\* lines 85-87
SetNodeAnnotations ==
    /\ pc = "SetNodeAnnotations"
    /\ SetDerived("node_annotations", nodes[idx].annotations,
                  "KeyError: 'annotations'")

\* line 88
SetNodeInfo ==
    /\ pc = "SetNodeInfo"
    /\ SetDerived("node_info", nodes[idx].nodeInfo, "KeyError: 'nodeInfo'")

\* lines 90-91
SetStaticVars ==
    /\ pc = "SetStaticVars"
    /\ hostvars' = [hostvars EXCEPT ![hostname] = ApplyStatic(@, config.vars)]
    /\ calls' = calls \o StaticCalls(idx, hostname, config.vars)
    /\ pc' = After(pc)
    /\ UNCHANGED <<inputs, cmd, nodes, idx, locals, hosts, groups, members,
                   failure>>

RECURSIVE WrittenCalls(_, _, _)
WrittenCalls(i, h, names) ==
    IF names = <<>> THEN <<>>
    ELSE << <<i, "set_variable", h, names[1]>> >> \o WrittenCalls(i, h, Tail(names))

\* lines 93-99
ComposeVars ==
    /\ pc = "ComposeVars"
    /\ strict' = config.strict
    /\ LET st == ComposeFrom(config.compose, 1,
                    [live |-> hostvars[hostname], local |-> hostvars[hostname],
                     aliased |-> TRUE, written |-> <<>>, failed |-> FALSE])
       IN  /\ hostvars' = [hostvars EXCEPT ![hostname] = st.live]
           /\ host_vars' = st.local
           /\ aliased' = st.aliased
           /\ calls' = calls \o WrittenCalls(idx, hostname, st.written)
           /\ IF st.failed
              THEN /\ pc' = "Failed"
                   /\ failure' = "AnsibleError: Could not set"
              ELSE /\ pc' = After(pc)
                   /\ UNCHANGED failure
    /\ UNCHANGED <<inputs, cmd, nodes, idx, hostname, addr, hosts, groups, members>>

RECURSIVE GroupCalls(_, _, _)
GroupCalls(i, h, names) ==
    IF names = <<>> THEN <<>>
    ELSE << <<i, "add_group", "", names[1]>>, <<i, "add_child", h, names[1]>> >>
         \o GroupCalls(i, h, Tail(names))

\* what a group helper leaves behind: st.names the groups the host joined,
\* st.failed whether it raised
Assign(st, error) ==
    /\ groups' = groups \cup {st.names[i] : i \in 1..Len(st.names)}
    /\ members' = members \cup {<<st.names[i], hostname>> : i \in 1..Len(st.names)}
    /\ calls' = calls \o GroupCalls(idx, hostname, st.names)
    /\ IF st.failed
       THEN /\ pc' = "Failed"
            /\ failure' = error
       ELSE /\ pc' = After(pc)
            /\ UNCHANGED failure
    /\ UNCHANGED <<inputs, cmd, nodes, idx, locals, hosts, hostvars>>

\* lines 105-107
ComposedGroups ==
    /\ pc = "ComposedGroups"
    /\ Assign(ComposedGroupsFrom(config.groups, 1,
                  CombineVars(host_vars, hostvars[hostname]),
                  [names |-> <<>>, failed |-> FALSE]),
              "AnsibleParserError: Could not add host to group")

\* lines 108-110
KeyedGroups ==
    /\ pc = "KeyedGroups"
    /\ Assign(KeyedGroupsFrom(config.keyed_groups, 1,
                  CombineVars(host_vars, hostvars[hostname]),
                  [names |-> <<>>, failed |-> FALSE]),
              "AnsibleParserError: Could not generate group")

Next ==
    \/ GetNodesOk
    \/ GetNodesFail
    \/ NextNode
    \/ Finish
    \/ ReadName
    \/ ResolveAddress
    \/ AddHost
    \/ SetAnsibleHost
    \/ SetNodeLabels
    \/ SetNodeAnnotations
    \/ SetNodeInfo
    \/ SetStaticVars
    \/ ComposeVars
    \/ ComposedGroups
    \/ KeyedGroups

Spec == Init /\ [][Next]_vars

\* get_nodes alone, over the selector maps
InitGetNodes ==
    /\ selectors \in SelectorOptions
    /\ cmd = <<>>
    /\ config = DefaultConfig
    /\ items = <<>>
    /\ nodes = <<>>
    /\ idx = 0
    /\ pc = "Start"
    /\ hostname = ""
    /\ addr = ""
    /\ host_vars = NoVars
    /\ aliased = FALSE
    /\ strict = FALSE
    /\ hosts = {}
    /\ hostvars = [h \in HostNames |-> NoVars]
    /\ groups = {}
    /\ members = {}
    /\ calls = <<>>
    /\ failure = "none"

NextGetNodes ==
    \/ GetNodesOk
    \/ GetNodesFail

SpecGetNodes == InitGetNodes /\ [][NextGetNodes]_vars

-----------------------------------------------------------------------------
(* What the properties below speak of *)

\* the node in hand
Node_ == nodes[idx]

\* the node's address list has an entry of the configured kind
HasKind(n) ==
    \E i \in 1..Len(n.addresses.list) : n.addresses.list[i][1] = config.address_from

\* the value of the first entry of the configured kind
FirstOfKind(n) ==
    LET L == n.addresses.list
        i == CHOOSE i \in 1..Len(L) :
                /\ L[i][1] = config.address_from
                /\ \A j \in 1..(i - 1) : L[j][1] # config.address_from
    IN  L[i][2]

\* the three levels a variable can be defined at
DerivedOf(n, k) ==
    CASE k = "ansible_host" -> Str(FirstOfKind(n))
      [] k = "node_labels" -> n.labels
      [] k = "node_annotations" -> n.annotations
      [] k = "node_info" -> n.nodeInfo
      [] OTHER -> Undef

StaticOf(k) ==
    IF \E i \in 1..Len(config.vars) : config.vars[i][1] = k
    THEN config.vars[CHOOSE i \in 1..Len(config.vars) : config.vars[i][1] = k][2]
    ELSE Undef

MergedOf(n) ==
    [k \in VarNames |-> IF StaticOf(k) # Undef THEN StaticOf(k) ELSE DerivedOf(n, k)]

ComposedNames == {config.compose[i][1] : i \in 1..Len(config.compose)}

ExprOf(k) == config.compose[CHOOSE i \in 1..Len(config.compose) : config.compose[i][1] = k][2]

\* a composed variable whose expression reads another composed variable
Dependent(k) ==
    /\ k \in ComposedNames
    /\ ExprOf(k).op # "lit"
    /\ ExprOf(k).a \in ComposedNames

\* the value of the highest level that defines k
ExpectedOf(n, k) ==
    IF k \in ComposedNames THEN Eval(ExprOf(k), MergedOf(n)) ELSE MergedOf(n)[k]

\* add_node has run _set_composite_vars for the node in hand
PastCompose ==
    \/ pc \in {"ComposedGroups", "KeyedGroups"}
    \/ pc \in {"NextNode", "Done"} /\ idx >= 1
    \/ pc = "Failed" /\ failure \in {"AnsibleParserError: Could not add host to group",
                                     "AnsibleParserError: Could not generate group"}

\* add_node has returned for the node in hand
NodeDone == pc \in {"NextNode", "Done"} /\ idx >= 1

\* the last node of the list that has name h
LastIndexOf(h) ==
    CHOOSE j \in 1..Len(nodes) :
        /\ nodes[j].name = Str(h)
        /\ \A l \in (j + 1)..Len(nodes) : nodes[l].name # Str(h)

-----------------------------------------------------------------------------
(* C1: a node without metadata.name is skipped and the build goes on: the
   build never ends on the missing name, and a finished build has a host
   for every node that has a name. *)
C1_NamelessNodeSkipped ==
    /\ failure # "KeyError: 'name'"
    /\ pc = "Done" =>
         \A i \in 1..Len(nodes) : nodes[i].name # Undef => nodes[i].name.s \in hosts

(* C2: a node that has a name but lacks status.addresses, metadata.labels,
   metadata.annotations or status.nodeInfo does not make add_node fail on
   the missing field. *)
C2_MissingFieldTolerated ==
    failure \notin {"KeyError: 'addresses'", "KeyError: 'labels'",
                    "KeyError: 'annotations'", "KeyError: 'nodeInfo'"}

(* C3: a node with no address entry of the configured kind never gets past
   address resolution: no call on the inventory is made for it, the build
   fails there with the resolution error, and nothing runs afterwards, so
   no later node is processed. *)
C3_AddressNotFoundAborts ==
    \A j \in 1..idx :
        (nodes[j].name # Undef /\ nodes[j].addresses.present /\ ~HasKind(nodes[j])) =>
            /\ j = idx
            /\ pc \in {"ReadName", "ResolveAddress", "Failed"}
            /\ pc = "Failed" => (failure = "StopIteration" /\ ~ENABLED Next)
            /\ \A k \in 1..Len(calls) : calls[k][1] # j

C3_Witness ==
    /\ pc = "Failed"
    /\ failure = "StopIteration"
    /\ idx < Len(nodes)
    /\ nodes[idx].addresses.list # <<>>

(* C4: right after add_node has set ansible_host, its value is the address
   of the first entry, in list order, whose type is address_from. *)
C4_AnsibleHostIsFirstMatch ==
    pc = "SetNodeLabels" =>
        \E i \in 1..Len(Node_.addresses.list) :
            /\ Node_.addresses.list[i][1] = config.address_from
            /\ \A j \in 1..(i - 1) : Node_.addresses.list[j][1] # config.address_from
            /\ hostvars[hostname]["ansible_host"] = Str(Node_.addresses.list[i][2])

C4_Witness ==
    /\ pc = "SetNodeLabels"
    /\ \E i, j \in 1..Len(Node_.addresses.list) :
        /\ i < j
        /\ Node_.addresses.list[i][1] = config.address_from
        /\ Node_.addresses.list[j][1] = config.address_from
        /\ Node_.addresses.list[i][2] # Node_.addresses.list[j][2]
    /\ \E i \in 1..Len(Node_.addresses.list) :
        Node_.addresses.list[i][1] # config.address_from

(* C5: once the composed variables of a node are set, every variable that
   some level defines holds the value of the highest level defining it,
   derived < static < composed (composed expressions that read another
   composed variable are left to C8). *)
C5_Precedence ==
    PastCompose =>
        \A k \in VarNames :
            (~Dependent(k) /\ ExpectedOf(Node_, k) # Undef) =>
                hostvars[Node_.name.s][k] = ExpectedOf(Node_, k)

C5_Witness ==
    /\ NodeDone
    /\ StaticOf("role") = Str("worker")
    /\ "role" \in ComposedNames
    /\ hostvars[Node_.name.s]["role"] = Str("edge")
    /\ StaticOf("ansible_host") # Undef
    /\ hostvars[Node_.name.s]["ansible_host"] = StaticOf("ansible_host")
    /\ hostvars[Node_.name.s]["ansible_host"] # DerivedOf(Node_, "ansible_host")

(* C6: every host is named after a node of the list, there are no more
   hosts than nodes, and after a successful build every named node has its
   host and a host's variables are those of the last node with its name. *)
C6_HostsFollowNodes ==
    /\ hosts \subseteq {nodes[i].name.s : i \in {j \in 1..idx : nodes[j].name # Undef}}
    /\ Cardinality(hosts) <= Len(nodes)
    /\ pc = "Done" =>
        /\ hosts = {nodes[i].name.s : i \in 1..Len(nodes)}
        /\ \A h \in hosts : \A k \in VarNames :
            (~Dependent(k) /\ ExpectedOf(nodes[LastIndexOf(h)], k) # Undef) =>
                hostvars[h][k] = ExpectedOf(nodes[LastIndexOf(h)], k)

C6_Witness ==
    /\ pc = "Done"
    /\ Cardinality(hosts) < Len(nodes)
    /\ \E i, j \in 1..Len(nodes) :
        /\ i < j
        /\ nodes[i].name = nodes[j].name
        /\ nodes[i].labels # nodes[j].labels
        /\ hostvars[nodes[j].name.s]["node_labels"] = nodes[j].labels

GroupNames == {config.groups[i][1] : i \in 1..Len(config.groups)}

\* the node in hand is the only one so far with its name
FirstOfItsName == \A j \in 1..(idx - 1) : nodes[j].name # Node_.name

(* C7: an expression error aborts the build exactly when it is a composed
   variable's (whatever the strict option says), or a group predicate's or
   keyed-group key's with the strict option on.  So: past the composed
   variables every one of them is set; the group helpers abort only under
   strict; under strict no node gets past a failing predicate or key; and
   without strict a failing predicate only costs its own group, the others
   are still assigned and the build goes on. *)
C7_StrictnessOfExpressionErrors ==
    /\ PastCompose => \A k \in ComposedNames : hostvars[Node_.name.s][k] # Undef
    /\ failure = "AnsibleError: Could not set" =>
         \E i \in 1..Len(config.compose) :
            Eval(config.compose[i][2], hostvars[hostname]) = Error
    /\ failure \in {"AnsibleParserError: Could not add host to group",
                    "AnsibleParserError: Could not generate group"} => config.strict
    /\ failure = "AnsibleParserError: Could not add host to group" =>
         \E i \in 1..Len(config.groups) :
            Eval(config.groups[i][2], hostvars[hostname]) = Error
    /\ failure = "AnsibleParserError: Could not generate group" =>
         \E i \in 1..Len(config.keyed_groups) :
            Eval(config.keyed_groups[i].key, hostvars[hostname]) = Error
    /\ (config.strict /\ (pc = "KeyedGroups" \/ NodeDone)) =>
         \A i \in 1..Len(config.groups) :
            Eval(config.groups[i][2], hostvars[Node_.name.s]) # Error
    /\ (config.strict /\ NodeDone) =>
         \A i \in 1..Len(config.keyed_groups) :
            Eval(config.keyed_groups[i].key, hostvars[Node_.name.s]) # Error
    /\ (~config.strict /\ (pc = "KeyedGroups" \/ NodeDone)) =>
         \A i \in 1..Len(config.groups) :
            LET v == Eval(config.groups[i][2], hostvars[Node_.name.s])
            IN  /\ (v # Error /\ Truthy(v)) => <<config.groups[i][1], Node_.name.s>> \in members
                /\ (v = Error /\ FirstOfItsName) =>
                      <<config.groups[i][1], Node_.name.s>> \notin members
    /\ (~config.strict /\ NodeDone) =>
         \A i \in 1..Len(config.keyed_groups) :
            LET v == Eval(config.keyed_groups[i].key, hostvars[Node_.name.s])
            IN  (v.kind = "str" /\ v.s # "") =>
                    <<config.keyed_groups[i].prefix \o config.keyed_groups[i].separator \o v.s,
                      Node_.name.s>> \in members

C7_Witness ==
    /\ pc = "Done"
    /\ ~config.strict
    /\ config.groups # <<>>
    /\ idx = 2
    /\ nodes[1].name # nodes[2].name
    /\ Eval(config.groups[1][2], hostvars[nodes[1].name.s]) = Error
    /\ Eval(config.keyed_groups[1].key, hostvars[nodes[1].name.s]) = Error
    /\ <<config.groups[1][1], nodes[1].name.s>> \notin members
    /\ <<"info_arch_amd64", nodes[1].name.s>> \in members
    /\ <<config.groups[1][1], nodes[2].name.s>> \in members

(* C8: every composed variable is computed from the host's variables as
   they stand after the derived and static variables, never from another
   variable composed for the same host. *)
C8_ComposedSeesNoComposed ==
    [][(pc = "ComposeVars" /\ pc' = "ComposedGroups") =>
          \A i \in 1..Len(config.compose) :
              hostvars'[hostname][config.compose[i][1]]
                  = Eval(config.compose[i][2], hostvars[hostname])]_vars

(* C9: get_nodes passes one -l per selector entry, in order, and nothing
   else after the base command: the key alone for a None value, key=value
   otherwise; no dict, or an empty one, adds nothing. *)
C9_SelectorTranslation ==
    pc # "Start" =>
        LET n == IF selectors.present THEN Len(selectors.entries) ELSE 0
        IN  /\ Len(cmd) = 5 + 2 * n
            /\ SubSeq(cmd, 1, 5) = <<"kubectl", "get", "nodes", "-o", "json">>
            /\ \A i \in 1..n :
                /\ cmd[4 + 2 * i] = "-l"
                /\ cmd[5 + 2 * i] =
                     IF selectors.entries[i][2] = None
                     THEN selectors.entries[i][1]
                     ELSE selectors.entries[i][1] \o "=" \o selectors.entries[i][2]

C9_Witness ==
    /\ pc = "NextNode"
    /\ selectors.present
    /\ cmd = <<"kubectl", "get", "nodes", "-o", "json", "-l", "role=worker", "-l", "zone">>

\* the inventory calls of one node come together, nodes in list order
CallsInNodeOrder ==
    \A i, j \in 1..Len(calls) : i < j => calls[i][1] <= calls[j][1]

\* within one node: add_host, then the variables, then the groups, the
\* groups of the predicates before the keyed ones
CallsInStepOrder ==
    \A i, j \in 1..Len(calls) : (i < j /\ calls[i][1] = calls[j][1]) =>
        /\ calls[j][2] # "add_host"
        /\ calls[i][2] \in {"add_group", "add_child"} => calls[j][2] # "set_variable"
        /\ (calls[i][2] = "add_child" /\ calls[i][4] \notin GroupNames) =>
              calls[j][4] \notin GroupNames

\* every call is made for the node whose turn it is
CallsForOwnNode ==
    \A i \in 1..Len(calls) :
        calls[i][2] # "add_group" => calls[i][3] = nodes[calls[i][1]].name.s

\* once groups were assigned to a host, no variable of that host is written
NoWriteOnceGrouped ==
    \A i, j \in 1..Len(calls) :
        (i < j /\ calls[i][2] = "add_child" /\ calls[j][2] = "set_variable") =>
            calls[i][3] # calls[j][3]

StepOrder ==
    { <<"Start", "NextNode">>, <<"NextNode", "ReadName">>, <<"NextNode", "Done">>,
      <<"ReadName", "ResolveAddress">>, <<"ResolveAddress", "AddHost">>,
      <<"AddHost", "SetAnsibleHost">>, <<"SetAnsibleHost", "SetNodeLabels">>,
      <<"SetNodeLabels", "SetNodeAnnotations">>, <<"SetNodeAnnotations", "SetNodeInfo">>,
      <<"SetNodeInfo", "SetStaticVars">>, <<"SetStaticVars", "ComposeVars">>,
      <<"ComposeVars", "ComposedGroups">>, <<"ComposedGroups", "KeyedGroups">>,
      <<"KeyedGroups", "NextNode">> }

(* C10 as stated: the fixed step sequence per node, one node at a time in
   list order, composed groups before keyed groups, and for every host no
   variable written after its group assignment has started. *)
C10_StepsAndNoWriteOnceGrouped ==
    /\ CallsInNodeOrder
    /\ CallsInStepOrder
    /\ CallsForOwnNode
    /\ NoWriteOnceGrouped

(* C10 amended: the fixed step sequence per node, one node at a time in
   list order, composed groups before keyed groups, and within one node's
   add_node no variable is written once its group assignment has started
   (a later node of the same name writes the host's variables again). *)
C10_StepOrderPerNode ==
    /\ [](CallsInNodeOrder /\ CallsInStepOrder /\ CallsForOwnNode)
    /\ [][/\ pc' # pc => (pc' = "Failed" \/ <<pc, pc'>> \in StepOrder)
          /\ idx' # idx => (pc = "NextNode" /\ idx' = idx + 1)
          /\ pc # "Start" => nodes' = nodes
          /\ pc = "Start" => nodes' \in {nodes, items}
          /\ pc \in {"ComposedGroups", "KeyedGroups"} => hostvars' = hostvars
          /\ pc \notin {"ComposedGroups", "KeyedGroups"} =>
                (groups' = groups /\ members' = members)]_vars

C10_Witness ==
    /\ pc = "Done"
    /\ idx = 2
    /\ nodes[1].name = nodes[2].name
    /\ \E i, j \in 1..Len(calls) :
        /\ i < j
        /\ calls[i][1] = 1 /\ calls[i][2] = "add_child"
        /\ calls[j][1] = 2 /\ calls[j][2] = "set_variable"
    /\ \E i, j \in 1..Len(calls) :
        /\ i < j
        /\ calls[i][1] = 2 /\ calls[j][1] = 2
        /\ calls[i][2] = "add_child" /\ calls[i][4] \in GroupNames
        /\ calls[j][2] = "add_child" /\ calls[j][4] \notin GroupNames

====
